---- MODULE Spec2Model ----
(***************************************************************************)
(* A model of I18nManager (src/src/i18n_manager.ts): the loader and        *)
(* formatter registries, the translation store with its cached flag and    *)
(* inferred locales, the asynchronous reload (concurrent loaders joined by *)
(* Promise.all, then a synchronous merge) and the locale queries.          *)
(***************************************************************************)
EXTENDS Integers, Sequences, FiniteSets, TLC

VARIABLES
    config,                 \* #config, set by the constructor, never reassigned
    formatters,             \* #formatters: name -> formatter factory
    formatter,              \* #formatter: the formatter in use, or None
    loaders,                \* #loaders: name -> loader factory
    inferredLocales,        \* #inferredLocales
    translations,           \* #translations: lang -> (key -> message)
    hasCachedTranslations,  \* #hasCachedTranslations
    inflight,               \* reloadTranslations calls suspended at the await
    ready,                  \* settled Promise.all joins whose continuation is queued
    created,                \* number of formatter instances the factories made
    returned,               \* the formatter instances getFormatter returned
    last                    \* the operation that ran last, with what it returned

vars == <<config, formatters, formatter, loaders, inferredLocales, translations,
          hasCachedTranslations, inflight, ready, created, returned, last>>

manager == <<formatters, formatter, loaders, inferredLocales, translations,
             hasCachedTranslations>>

-----------------------------------------------------------------------------
(* Bounds of the model. *)

\* reloadTranslations calls that may be suspended or queued at the same time
MaxInFlight == 2

\* the same, where the formatter and the queries run between the loads
MaxInFlightAll == 1

-----------------------------------------------------------------------------
(* JavaScript values. *)

\* the value of a missing property
Undefined == "<undefined>"

\* a member every plain object inherits from Object.prototype
Inherited == "<Object.prototype member>"

\* names a plain object answers to without owning them
ObjectPrototypeKeys == {"constructor", "toString", "valueOf", "hasOwnProperty"}

\* an optional configuration field: absent, or present with a value
None == [some |-> FALSE]

Some(v) == [some |-> TRUE, val |-> v]

\* {} : an object with no own property
EmptyObject == [k \in {} |-> ""]

\* what `a || b` and `if (a)` test, for strings
Truthy(v) == v # Undefined /\ v # ""

\* Object.keys(obj) of an object written as a sequence of <<key, value>> pairs
ObjectKeys(obj) == [i \in 1..Len(obj) |-> obj[i][1]]

\* obj[key] of a plain object written as a sequence of <<key, value>> pairs:
\* the own property, else the member inherited from Object.prototype
PropertyGet(obj, key) ==
    IF \E i \in 1..Len(obj) : obj[i][1] = key
    THEN obj[CHOOSE i \in 1..Len(obj) : obj[i][1] = key][2]
    ELSE IF key \in ObjectPrototypeKeys THEN Inherited ELSE Undefined

\* obj[key] = value on such an object: an own key keeps its place
PropertySet(obj, key, value) ==
    IF \E i \in 1..Len(obj) : obj[i][1] = key
    THEN [i \in 1..Len(obj) |-> IF obj[i][1] = key THEN <<key, value>> ELSE obj[i]]
    ELSE Append(obj, <<key, value>>)

\* array.includes(x)
Includes(array, x) == \E i \in 1..Len(array) : array[i] = x

\* Object.assign(target, source) on key -> message objects
ObjectAssign(target, source) ==
    [k \in DOMAIN target \cup DOMAIN source |->
        IF k \in DOMAIN source THEN source[k] ELSE target[k]]

-----------------------------------------------------------------------------
(* The configurations a manager is constructed with, and what loaders return. *)

\* config.loaders entries, in declaration order
LoaderEntry(name, enabled) == [name |-> name, enabled |-> enabled]

Configs ==
    { [defaultLocale |-> "en", supportedLocales |-> None,
       fallbackLocales |-> Some(<< <<"fr-CA", "fr">> >>),
       loaders |-> <<LoaderEntry("fs", TRUE), LoaderEntry("db", TRUE)>>,
       translationsFormat |-> "icu"],
      [defaultLocale |-> "en", supportedLocales |-> None, fallbackLocales |-> None,
       loaders |-> <<LoaderEntry("fs", TRUE), LoaderEntry("db", FALSE)>>,
       translationsFormat |-> "custom"],
      [defaultLocale |-> "en", supportedLocales |-> None,
       fallbackLocales |-> Some(<< <<"en", "fr">>, <<"fr-CA", "">> >>),
       loaders |-> <<LoaderEntry("db", TRUE), LoaderEntry("fs", FALSE)>>,
       translationsFormat |-> "icu"],
      [defaultLocale |-> "fr", supportedLocales |-> Some(<<>>),
       fallbackLocales |-> Some(<< <<"fr-CA", "fr">> >>),
       loaders |-> <<LoaderEntry("fs", TRUE)>>,
       translationsFormat |-> "icu"],
      [defaultLocale |-> "en", supportedLocales |-> Some(<<"en", "fr">>),
       fallbackLocales |-> None,
       loaders |-> <<LoaderEntry("fs", FALSE), LoaderEntry("db", FALSE)>>,
       translationsFormat |-> "custom"] }

\* what a loader's load() may resolve to: an object lang -> (key -> message),
\* written as <<lang, messages>> pairs in the object's key order
LoaderResults(name) ==
    IF name = "fs"
    THEN { << <<"en", [welcome |-> "Hi"]>>, <<"fr", [welcome |-> "Salut"]>> >>,
           << <<"", [bye |-> "Adieu"]>> >> }
    ELSE { << <<"en", [bye |-> "Bye"]>> >>,
           << <<"en", [welcome |-> "Hello"]>>, <<"es", [welcome |-> "Hola"]>> >> }

\* names and callbacks given to extend
LoaderNames == {"db"}

LoaderCallbacks == {"loaderCallback"}

FormatterNames == {"custom"}

FormatterCallbacks == {"formatterCallback1", "formatterCallback2"}

\* locale strings handed to the queries
LocaleInputs == {"fr-CA", "de", "constructor"}

-----------------------------------------------------------------------------
(* The synchronous methods. *)

\* get defaultLocale()
defaultLocale == config.defaultLocale

\* a test that takes an empty explicit list for a missing one
supportedLocalesUnlessEmpty ==
    IF config.supportedLocales.some /\ Len(config.supportedLocales.val) > 0
    THEN config.supportedLocales.val
    ELSE inferredLocales

\* supportedLocales(): config.supportedLocales || this.#inferredLocales
\* (an array, empty or not, is truthy)
supportedLocales ==
    IF config.supportedLocales.some THEN config.supportedLocales.val
    ELSE inferredLocales

\* getTranslations()
getTranslations == translations

\* getTranslationsFor(locale): this.#translations[locale] || {}
getTranslationsFor(locale) ==
    IF locale \in DOMAIN translations THEN translations[locale] ELSE EmptyObject

\* getFallbackLocaleFor(locale)
getFallbackLocaleFor(locale) ==
    IF ~config.fallbackLocales.some THEN defaultLocale
    ELSE LET found == PropertyGet(config.fallbackLocales.val, locale)
         IN  IF Truthy(found) THEN found ELSE defaultLocale

-----------------------------------------------------------------------------
(* Language negotiation: Negotiator(...).language(available). *)

\* null
Null == "<null>"

\* one language range of an Accept-Language value, as parseLanguage reads it:
\* "fr-CA;q=0.9" is prefix "fr", suffix "CA", q 900 (q in thousandths; the
\* suffix is "" when the range has none; "*" is the prefix of the wildcard)
LanguageRange(prefix, suffix, q) == [prefix |-> prefix, suffix |-> suffix, q |-> q]

\* a userLanguage argument: a string, read as the ranges between its commas,
\* or an array of such strings
AsString(ranges) == [array |-> FALSE, text |-> ranges]

AsArray(elements) == [array |-> TRUE, elements |-> elements]

\* the arguments handed to getSupportedLocaleFor:
\* [], ["xx-unmatched"], "fr-CA;q=0.9,en;q=0.5" and
\* ["fr;q=0.2,fr-CA;q=0.9", "EN;q=0.5", "*;q=0.1"]
UserLanguages ==
    { AsArray(<<>>),
      AsArray(<< <<LanguageRange("xx", "unmatched", 1000)>> >>),
      AsString(<<LanguageRange("fr", "CA", 900), LanguageRange("en", "", 500)>>),
      AsArray(<< <<LanguageRange("fr", "", 200), LanguageRange("fr", "CA", 900)>>,
                 <<LanguageRange("EN", "", 500)>>,
                 <<LanguageRange("*", "", 100)>> >>) }

\* elements.join(','): the ranges of the elements, one after the other
RECURSIVE Join(_)
Join(elements) ==
    IF elements = <<>> THEN <<>> ELSE Head(elements) \o Join(Tail(elements))

\* String.prototype.toLowerCase, on the subtags of the model
ToLowerCase(str) ==
    CASE str = "CA" -> "ca"
      [] str = "EN" -> "en"
      [] OTHER -> str

\* parseLanguage(str) of a locale string: prefix and suffix around the first
\* hyphen; the empty string does not parse
ParseLanguage(str) ==
    CASE str = "" -> None
      [] str = "fr-CA" -> Some([prefix |-> "fr", suffix |-> "CA"])
      [] OTHER -> Some([prefix |-> str, suffix |-> ""])

\* full.toLowerCase(): prefix, and suffix if any
Full(p) == <<ToLowerCase(p.prefix), ToLowerCase(p.suffix)>>

\* parseAcceptLanguage(accept): each range with its position in the value
ParseAcceptLanguage(accept) ==
    [i \in 1..Len(accept) |->
        [prefix |-> accept[i].prefix, suffix |-> accept[i].suffix,
         q |-> accept[i].q, i |-> i - 1]]

\* specify(language, spec, index): how specifically range spec matches language
Specify(language, spec, index) ==
    LET p == ParseLanguage(language)
        s == IF ~p.some THEN -1
             ELSE IF Full(spec) = Full(p.val) THEN 4
             ELSE IF <<ToLowerCase(spec.prefix), "">> = Full(p.val) THEN 2
             ELSE IF Full(spec) = <<ToLowerCase(p.val.prefix), "">> THEN 1
             ELSE IF Full(spec) # <<"*", "">> THEN -1
             ELSE 0
    IN  IF s < 0 THEN None
        ELSE Some([i |-> index, o |-> spec.i, q |-> spec.q, s |-> s])

\* (priority.s - spec.s || priority.q - spec.q || priority.o - spec.o) < 0
Outranks(spec, priority) ==
    IF priority.s # spec.s THEN priority.s < spec.s
    ELSE IF priority.q # spec.q THEN priority.q < spec.q
    ELSE priority.o < spec.o

\* getLanguagePriority(language, accepted, index): the loop over accepted
RECURSIVE LanguagePriorityFrom(_, _, _, _, _)
LanguagePriorityFrom(priority, language, accepted, index, n) ==
    IF n > Len(accepted) THEN priority
    ELSE LET spec == Specify(language, accepted[n], index)
         IN  LanguagePriorityFrom(
                 IF spec.some /\ Outranks(spec.val, priority) THEN spec.val
                 ELSE priority,
                 language, accepted, index, n + 1)

GetLanguagePriority(language, accepted, index) ==
    LanguagePriorityFrom([i |-> index, o |-> -1, q |-> 0, s |-> 0],
                         language, accepted, index, 1)

\* compareSpecs(a, b) < 0: a sorts before b
SortsBefore(a, b) ==
    IF a.q # b.q THEN b.q < a.q
    ELSE IF a.s # b.s THEN b.s < a.s
    ELSE IF a.o # b.o THEN a.o < b.o
    ELSE a.i < b.i

\* Negotiator.language(available): preferredLanguages(accept, available)[0],
\* the available language whose priority, of quality above 0, sorts first
NegotiatorLanguage(accept, available) ==
    LET accepted == ParseAcceptLanguage(accept)
        priorities == [n \in 1..Len(available) |->
                          GetLanguagePriority(available[n], accepted, n - 1)]
        quality == {n \in 1..Len(available) : priorities[n].q > 0}
    IN  IF quality = {} THEN Undefined
        ELSE available[CHOOSE n \in quality :
                           \A m \in quality \ {n} :
                               SortsBefore(priorities[n], priorities[m])]

\* the 'accept-language' header built from userLanguage
AcceptLanguageHeader(userLanguage) ==
    IF userLanguage.array THEN Join(userLanguage.elements) ELSE userLanguage.text

\* a negotiation that falls back to the default locale
getSupportedLocaleForOrDefault(userLanguage) ==
    LET language == NegotiatorLanguage(AcceptLanguageHeader(userLanguage),
                                       supportedLocales)
    IN  IF Truthy(language) THEN language ELSE defaultLocale

\* a negotiation over the inferred locales alone
getSupportedLocaleForInferred(userLanguage) ==
    LET language == NegotiatorLanguage(AcceptLanguageHeader(userLanguage),
                                       inferredLocales)
    IN  IF Truthy(language) THEN language ELSE Null

\* getSupportedLocaleFor(userLanguage)
getSupportedLocaleFor(userLanguage) ==
    LET language == NegotiatorLanguage(AcceptLanguageHeader(userLanguage),
                                       supportedLocales)
    IN  IF Truthy(language) THEN language ELSE Null

-----------------------------------------------------------------------------
(* reloadTranslations: the part before the await. *)

\* a selection that forgets the enabled flag
EveryDeclaredLoader == [i \in 1..Len(config.loaders) |-> config.loaders[i].name]

\* Object.keys(config.loaders).filter((loader) => config.loaders[loader]?.enabled)
EnabledLoaders ==
    LET names == [i \in 1..Len(config.loaders) |-> config.loaders[i].name]
        on(name) == \E i \in 1..Len(config.loaders) :
                        config.loaders[i].name = name /\ config.loaders[i].enabled
    IN  SelectSeq(names, on)

\* the loader names without a factory in the registry
Unregistered(names) ==
    {i \in 1..Len(names) : ~Truthy(PropertyGet(loaders, names[i]))}

\* .map(...): the factories are called in order until a name has none; the
\* result is the loads started, each by the factory registered at this moment
StartedLoads(names) ==
    LET bad == Unregistered(names)
        n   == IF bad = {} THEN Len(names)
               ELSE (CHOOSE i \in bad : \A j \in bad : i <= j) - 1
    IN  [i \in 1..n |-> [name |-> names[i],
                         factory |-> PropertyGet(loaders, names[i])]]

\* a load() promise: pending, or fulfilled with the loader's translations
\* (nth: it was the nth promise of its call to be fulfilled)
Pending == [state |-> "pending"]

Fulfilled(value, nth) == [state |-> "fulfilled", value |-> value, nth |-> nth]

\* the call suspended at `await Promise.all(...)`
SuspendedCall(kind, started) ==
    [kind |-> kind,
     loads |-> [i \in 1..Len(started) |->
                   [name |-> started[i].name, factory |-> started[i].factory,
                    promise |-> Pending]]]

\* Promise.all fulfils once every promise has (at once for an empty array)
AllFulfilled(call) ==
    \A i \in 1..Len(call.loads) : call.loads[i].promise.state = "fulfilled"

\* a join that hands the values over in the order the loads were fulfilled
StackInCompletionOrder(call) ==
    [n \in 1..Len(call.loads) |->
        call.loads[CHOOSE i \in 1..Len(call.loads) :
                       call.loads[i].promise.nth = n].promise.value]

\* what Promise.all resolves to: the values in the order of the input array
TranslationsStack(call) ==
    [i \in 1..Len(call.loads) |-> call.loads[i].promise.value]

\* the join as queued for the continuation of the await
Settled(call, rejected) ==
    [kind |-> call.kind, rejected |-> rejected, loads |-> call.loads]

-----------------------------------------------------------------------------
(* reloadTranslations: the part after the await. *)

\* the store and the inferred locales while the stack is merged
MergeState(store, inferred) == [translations |-> store, inferredLocales |-> inferred]

\* a merge that replaces a lang's messages instead of assigning into them
MergeLangReplacing(st, lang, messages) ==
    MergeState(
        [l \in DOMAIN st.translations \cup {lang} |->
            IF l = lang THEN messages ELSE st.translations[l]],
        IF Includes(st.inferredLocales, lang) THEN st.inferredLocales
        ELSE Append(st.inferredLocales, lang))

\* a merge that leaves the inferred locales as they are
MergeLangStoreOnly(st, lang, messages) ==
    MergeState(
        [l \in DOMAIN st.translations \cup {lang} |->
            ObjectAssign(IF l \in DOMAIN st.translations
                         THEN st.translations[l] ELSE EmptyObject,
                         IF l = lang THEN messages ELSE EmptyObject)],
        st.inferredLocales)

\* the body of Object.keys(translations).forEach((lang) => ...), for one lang
MergeLang(st, lang, messages) ==
    MergeState(
        [l \in DOMAIN st.translations \cup {lang} |->
            ObjectAssign(IF l \in DOMAIN st.translations
                         THEN st.translations[l] ELSE EmptyObject,
                         IF l = lang THEN messages ELSE EmptyObject)],
        IF Includes(st.inferredLocales, lang) THEN st.inferredLocales
        ELSE Append(st.inferredLocales, lang))

\* Object.keys(translations).forEach(...) over one loader's translations
RECURSIVE MergeTranslations(_, _, _)
MergeTranslations(st, trans, i) ==
    IF i > Len(trans) THEN st
    ELSE MergeTranslations(MergeLang(st, trans[i][1], trans[i][2]), trans, i + 1)

\* translationsStack.forEach(...)
RECURSIVE MergeStack(_, _, _)
MergeStack(st, stack, i) ==
    IF i > Len(stack) THEN st
    ELSE MergeStack(MergeTranslations(st, stack[i], 1), stack, i + 1)

\* a base that takes the locales fallen back to, not the keys
InferredBaseFromValues ==
    <<defaultLocale>> \o
        (IF config.fallbackLocales.some
         THEN [i \in 1..Len(config.fallbackLocales.val) |->
                  config.fallbackLocales.val[i][2]]
         ELSE <<>>)

\* [this.defaultLocale].concat(fallbackLocales ? Object.keys(fallbackLocales) : [])
InferredBase ==
    <<defaultLocale>> \o
        (IF config.fallbackLocales.some THEN ObjectKeys(config.fallbackLocales.val)
         ELSE <<>>)

\* a reload that merges into the store and the list it finds
ReloadedOntoStore(stack) ==
    LET merged == MergeStack(MergeState(translations, inferredLocales), stack, 1)
    IN  [hasCachedTranslations |-> TRUE,
         translations |-> merged.translations,
         inferredLocales |-> merged.inferredLocales]

\* the statements after the await, run when Promise.all fulfilled with stack
Reloaded(stack) ==
    LET merged == MergeStack(MergeState(EmptyObject, InferredBase), stack, 1)
    IN  [hasCachedTranslations |-> TRUE,
         translations |-> merged.translations,
         inferredLocales |-> merged.inferredLocales]

\* the state a rejected await leaves: the exception leaves the method there
Untouched ==
    [hasCachedTranslations |-> hasCachedTranslations,
     translations |-> translations,
     inferredLocales |-> inferredLocales]

\* a continuation that has emptied the store before it sees the rejection
AfterAwaitClearingFirst(join) ==
    IF join.rejected
    THEN [hasCachedTranslations |-> hasCachedTranslations,
          translations |-> EmptyObject,
          inferredLocales |-> inferredLocales]
    ELSE Reloaded(TranslationsStack(join))

\* a continuation whose flag was set before the await
AfterAwaitFlagSetEarly(join) ==
    IF join.rejected
    THEN [hasCachedTranslations |-> TRUE,
          translations |-> translations,
          inferredLocales |-> inferredLocales]
    ELSE Reloaded(TranslationsStack(join))

\* the continuation of the await for a settled join
AfterAwait(join) ==
    IF join.rejected THEN Untouched ELSE Reloaded(TranslationsStack(join))

-----------------------------------------------------------------------------
(* The state after construction. *)

Init ==
    /\ config \in Configs
    /\ formatters = << <<"icu", "IcuFormatter">> >>
    /\ formatter = None
    /\ loaders = << <<"fs", "FsLoader">> >>
    /\ inferredLocales = <<>>
    /\ translations = EmptyObject
    /\ hasCachedTranslations = FALSE
    /\ inflight = <<>>
    /\ ready = <<>>
    /\ created = 0
    /\ returned = {}
    /\ last = [op |-> "constructor"]

-----------------------------------------------------------------------------
(* Loading. *)

\* a sequence without its i-th element
Without(seq, i) == SubSeq(seq, 1, i - 1) \o SubSeq(seq, i + 1, Len(seq))

\* what a call of loadTranslations or reloadTranslations reports
Called(op, outcome, started) ==
    [op |-> op, phase |-> "called", cached |-> hasCachedTranslations,
     outcome |-> outcome, invoked |-> started]

\* reloadTranslations() up to its await, for the method `op` that runs it: a
\* name without a factory throws out of .map() after the loads before it have
\* started (nothing awaits them: what they settle to is dropped); otherwise
\* the call suspends on the join of the started loads
\* (limit bounds the calls suspended or queued at the same time)
ReloadCall(op, limit) ==
    LET names   == EnabledLoaders
        started == StartedLoads(names)
        call    == SuspendedCall(op, started)
    IN  IF Unregistered(names) # {}
        THEN /\ last' = Called(op, "configuration error", started)
             /\ UNCHANGED <<config, manager, inflight, ready, created, returned>>
        ELSE /\ Len(inflight) + Len(ready) < limit
             /\ IF AllFulfilled(call)
                THEN /\ ready' = Append(ready, Settled(call, FALSE))
                     /\ UNCHANGED inflight
                ELSE /\ inflight' = Append(inflight, call)
                     /\ UNCHANGED ready
             /\ last' = Called(op, "suspended", started)
             /\ UNCHANGED <<config, manager, created, returned>>

\* reloadTranslations()
ReloadTranslations(limit) == ReloadCall("reloadTranslations", limit)

\* a guard that lets every loadTranslations call through
NotCachedIgnored == TRUE

\* a guard that also holds back while an earlier call is at its await
NotCachedNorLoading == ~hasCachedTranslations /\ inflight = <<>> /\ ready = <<>>

\* if (!this.hasCachedTranslations)
NotCached == ~hasCachedTranslations

\* loadTranslations()
LoadTranslations(limit) ==
    IF NotCached
    THEN ReloadCall("loadTranslations", limit)
    ELSE /\ last' = Called("loadTranslations", "skipped", <<>>)
         /\ UNCHANGED <<config, manager, inflight, ready, created, returned>>

\* the loads of a call that are fulfilled
FulfilledLoads(call) ==
    {j \in 1..Len(call.loads) : call.loads[j].promise.state = "fulfilled"}

\* the join of call c once its i-th load is fulfilled with value
WithFulfilled(c, i, value) ==
    [inflight[c] EXCEPT !.loads[i].promise =
        Fulfilled(value, Cardinality(FulfilledLoads(inflight[c])) + 1)]

\* a loader's load() resolves; the last one to do so fulfils Promise.all
LoaderFulfils(c, i, value) ==
    /\ inflight[c].loads[i].promise = Pending
    /\ IF AllFulfilled(WithFulfilled(c, i, value))
       THEN /\ inflight' = Without(inflight, c)
            /\ ready' = Append(ready, Settled(WithFulfilled(c, i, value), FALSE))
       ELSE /\ inflight' = [inflight EXCEPT ![c] = WithFulfilled(c, i, value)]
            /\ UNCHANGED ready
    /\ last' = [op |-> "load", outcome |-> "fulfilled"]
    /\ UNCHANGED <<config, manager, created, returned>>

\* a loader's load() rejects: Promise.all rejects with it at once and drops
\* whatever the other loads settle to
LoaderRejects(c, i) ==
    /\ inflight[c].loads[i].promise = Pending
    /\ inflight' = Without(inflight, c)
    /\ ready' = Append(ready, Settled([inflight[c] EXCEPT !.loads = <<>>], TRUE))
    /\ last' = [op |-> "load", outcome |-> "rejected"]
    /\ UNCHANGED <<config, manager, created, returned>>

\* a queue that runs the continuation queued last
ResumeNewest == Len(ready)

\* the continuations of settled awaits run in the order they were queued
ResumeNext == 1

\* the continuation of the oldest settled await runs to the end of the method
ReloadResumes ==
    /\ ready # <<>>
    /\ LET join  == ready[ResumeNext]
           after == AfterAwait(join)
       IN  /\ hasCachedTranslations' = after.hasCachedTranslations
           /\ translations' = after.translations
           /\ inferredLocales' = after.inferredLocales
           /\ last' = [op |-> join.kind, phase |-> "resumed",
                       cached |-> hasCachedTranslations,
                       outcome |-> IF join.rejected THEN "load failure" ELSE "reloaded",
                       loads |-> join.loads, replaced |-> translations]
    /\ ready' = Without(ready, ResumeNext)
    /\ UNCHANGED <<config, formatters, formatter, loaders, inflight, created, returned>>

-----------------------------------------------------------------------------
(* The registries and the formatter. *)

\* extend(name, type, callback)
Extend(name, type, callback) ==
    /\ IF type = "loader"
       THEN /\ loaders' = PropertySet(loaders, name, callback)
            /\ UNCHANGED formatters
       ELSE /\ formatters' = PropertySet(formatters, name, callback)
            /\ UNCHANGED loaders
    /\ last' = [op |-> "extend", type |-> type, name |-> name]
    /\ UNCHANGED <<config, formatter, inferredLocales, translations,
                   hasCachedTranslations, inflight, ready, created, returned>>

\* a test that never finds the formatter in use
NoFormatterEver == TRUE

\* if (!this.#formatter)
NoFormatter == ~formatter.some

\* a getFormatter that knows the formatters registered at construction only
GetFormatterOfConstruction ==
    LET formatterFactory == PropertyGet(<< <<"icu", "IcuFormatter">> >>,
                                        config.translationsFormat)
        instance == [factory |-> formatterFactory, serial |-> created + 1]
    IN  IF NoFormatter
        THEN IF ~Truthy(formatterFactory)
             THEN /\ last' = [op |-> "getFormatter", outcome |-> "configuration error"]
                  /\ UNCHANGED <<config, manager, inflight, ready, created, returned>>
             ELSE /\ formatter' = Some(instance)
                  /\ created' = created + 1
                  /\ returned' = returned \cup {instance}
                  /\ last' = [op |-> "getFormatter", outcome |-> "returned",
                              value |-> instance]
                  /\ UNCHANGED <<config, formatters, loaders, inferredLocales,
                                 translations, hasCachedTranslations, inflight, ready>>
        ELSE /\ returned' = returned \cup {formatter.val}
             /\ last' = [op |-> "getFormatter", outcome |-> "returned",
                         value |-> formatter.val]
             /\ UNCHANGED <<config, manager, inflight, ready, created>>

\* getFormatter()
GetFormatter ==
    LET formatterFactory == PropertyGet(formatters, config.translationsFormat)
        instance == [factory |-> formatterFactory, serial |-> created + 1]
    IN  IF NoFormatter
        THEN IF ~Truthy(formatterFactory)
             THEN /\ last' = [op |-> "getFormatter", outcome |-> "configuration error"]
                  /\ UNCHANGED <<config, manager, inflight, ready, created, returned>>
             ELSE /\ formatter' = Some(instance)
                  /\ created' = created + 1
                  /\ returned' = returned \cup {instance}
                  /\ last' = [op |-> "getFormatter", outcome |-> "returned",
                              value |-> instance]
                  /\ UNCHANGED <<config, formatters, loaders, inferredLocales,
                                 translations, hasCachedTranslations, inflight, ready>>
        ELSE /\ returned' = returned \cup {formatter.val}
             /\ last' = [op |-> "getFormatter", outcome |-> "returned",
                         value |-> formatter.val]
             /\ UNCHANGED <<config, manager, inflight, ready, created>>

-----------------------------------------------------------------------------
(* The queries, each reporting what it returned. *)

SupportedLocales ==
    /\ last' = [op |-> "supportedLocales", value |-> supportedLocales]
    /\ UNCHANGED <<config, manager, inflight, ready, created, returned>>

GetTranslations ==
    /\ last' = [op |-> "getTranslations", value |-> getTranslations]
    /\ UNCHANGED <<config, manager, inflight, ready, created, returned>>

GetTranslationsFor(locale) ==
    /\ last' = [op |-> "getTranslationsFor", locale |-> locale,
                value |-> getTranslationsFor(locale)]
    /\ UNCHANGED <<config, manager, inflight, ready, created, returned>>

GetFallbackLocaleFor(locale) ==
    /\ last' = [op |-> "getFallbackLocaleFor", locale |-> locale,
                value |-> getFallbackLocaleFor(locale)]
    /\ UNCHANGED <<config, manager, inflight, ready, created, returned>>

\* a negotiation that keeps the list it negotiated over
GetSupportedLocaleForKeepingList(userLanguage) ==
    /\ last' = [op |-> "getSupportedLocaleFor", userLanguage |-> userLanguage,
                value |-> getSupportedLocaleFor(userLanguage)]
    /\ inferredLocales' = supportedLocales
    /\ UNCHANGED <<config, formatters, formatter, loaders, translations,
                   hasCachedTranslations, inflight, ready, created, returned>>

GetSupportedLocaleFor(userLanguage) ==
    /\ last' = [op |-> "getSupportedLocaleFor", userLanguage |-> userLanguage,
                value |-> getSupportedLocaleFor(userLanguage)]
    /\ UNCHANGED <<config, manager, inflight, ready, created, returned>>

-----------------------------------------------------------------------------
(* The specifications. *)

\* a loader's load() settles
LoaderSettles ==
    \E c \in 1..Len(inflight) : \E i \in 1..Len(inflight[c].loads) :
        \/ \E value \in LoaderResults(inflight[c].loads[i].name) :
              LoaderFulfils(c, i, value)
        \/ LoaderRejects(c, i)

ExtendLoader ==
    \E name \in LoaderNames : \E callback \in LoaderCallbacks :
        Extend(name, "loader", callback)

ExtendFormatter ==
    \E name \in FormatterNames : \E callback \in FormatterCallbacks :
        Extend(name, "formatter", callback)

\* loading: calls overlap, loads settle in any order, loaders are registered
Next ==
    \/ ReloadTranslations(MaxInFlight)
    \/ LoadTranslations(MaxInFlight)
    \/ LoaderSettles
    \/ ReloadResumes
    \/ ExtendLoader

Spec == Init /\ [][Next]_vars

\* every operation of the manager
NextAll ==
    \/ ReloadTranslations(MaxInFlightAll)
    \/ LoadTranslations(MaxInFlightAll)
    \/ LoaderSettles
    \/ ReloadResumes
    \/ ExtendLoader
    \/ ExtendFormatter
    \/ GetFormatter
    \/ SupportedLocales
    \/ GetTranslations
    \/ \E locale \in {"en", "de"} : GetTranslationsFor(locale)
    \/ \E locale \in LocaleInputs : GetFallbackLocaleFor(locale)
    \/ \E userLanguage \in UserLanguages : GetSupportedLocaleFor(userLanguage)

SpecAll == Init /\ [][NextAll]_vars

-----------------------------------------------------------------------------
(* What the last operation was. *)

\* the last step was a call of loadTranslations or reloadTranslations
LastCalled ==
    /\ last.op \in {"loadTranslations", "reloadTranslations"}
    /\ last.phase = "called"

\* the last step was the continuation of a reload that then merged
LastReloaded ==
    /\ last.op \in {"loadTranslations", "reloadTranslations"}
    /\ last.phase = "resumed"
    /\ last.outcome = "reloaded"

\* the last step ended a loadTranslations or reloadTranslations call in failure
LastFailed ==
    /\ last.op \in {"loadTranslations", "reloadTranslations"}
    /\ last.outcome \in {"configuration error", "load failure"}

\* the translations the reload that resumed last had received, in the order
\* the sources are declared in config.loaders
DeclaredStack == [i \in 1..Len(last.loads) |-> last.loads[i].promise.value]

\* whether a loader's translations give a message for lang and key
Provides(trans, lang, key) ==
    \E i \in 1..Len(trans) : trans[i][1] = lang /\ key \in DOMAIN trans[i][2]

\* the message they give
Message(trans, lang, key) ==
    trans[CHOOSE i \in 1..Len(trans) : trans[i][1] = lang /\ key \in DOMAIN trans[i][2]][2][key]

\* the langs and keys the model's loaders speak of
AllLangs == {"en", "fr", "es", ""}

AllKeys == {"welcome", "bye"}

-----------------------------------------------------------------------------
(* C1: a loadTranslations or reloadTranslations call that fails, by a rejected
   load or by an enabled loader name without a factory, leaves the
   translations returned by getTranslations() and hasCachedTranslations as they
   were before the call: neither the call, nor the settling of a load, nor the
   step in which the call fails changes them. *)
C1_FailedReloadLeavesState ==
    [][(LastFailed' \/ LastCalled' \/ last'.op = "load") =>
          /\ getTranslations' = getTranslations
          /\ hasCachedTranslations' = hasCachedTranslations]_vars

\* a load was rejected after an earlier reload had filled the store
C1_Witness ==
    /\ LastFailed
    /\ last.outcome = "load failure"
    /\ hasCachedTranslations
    /\ "en" \in DOMAIN translations

(* C2: after a successful reload in which two or more sources gave a message
   for the same lang and key, the store holds the message of the source
   declared last in config.loaders, in whatever order the loads completed. *)
C2_LastDeclaredSourceWins ==
    LastReloaded =>
        \A lang \in AllLangs : \A key \in AllKeys :
            \A i \in 1..Len(DeclaredStack) : \A j \in 1..Len(DeclaredStack) :
                (/\ i < j
                 /\ Provides(DeclaredStack[i], lang, key)
                 /\ Provides(DeclaredStack[j], lang, key)
                 /\ \A k \in (j + 1)..Len(DeclaredStack) :
                        ~Provides(DeclaredStack[k], lang, key))
                => /\ lang \in DOMAIN translations
                   /\ key \in DOMAIN translations[lang]
                   /\ translations[lang][key] = Message(DeclaredStack[j], lang, key)

\* fs and db both gave en.welcome, and db, declared last, completed first
C2_Witness ==
    /\ LastReloaded
    /\ Len(last.loads) = 2
    /\ Provides(DeclaredStack[1], "en", "welcome")
    /\ Provides(DeclaredStack[2], "en", "welcome")
    /\ last.loads[2].promise.nth = 1
    /\ translations["en"]["welcome"] = "Hello"

-----------------------------------------------------------------------------
(* The loaders a call invoked. *)

\* how many loads the last call started with the factory of loader name
InvokedCount(name) ==
    Cardinality({i \in 1..Len(last.invoked) : last.invoked[i].name = name})

\* the names config.loaders declares with a truthy enabled flag
EnabledNames ==
    {config.loaders[i].name :
        i \in {j \in 1..Len(config.loaders) : config.loaders[j].enabled}}

\* the names with a factory in the loader registry
RegisteredNames == {loaders[i][1] : i \in 1..Len(loaders)}

\* name is declared at or after an enabled name that has no factory
Blocked(name) ==
    \E i \in 1..Len(config.loaders) : \E j \in 1..i :
        /\ config.loaders[i].name = name
        /\ config.loaders[j].enabled
        /\ config.loaders[j].name \notin RegisteredNames

(* C3, as claimed: a loadTranslations call made while hasCachedTranslations is
   false invokes each enabled loader exactly once, one made while it is true
   invokes none, and a reloadTranslations call invokes every enabled loader. *)
C3_EveryEnabledLoaderInvoked ==
    LastCalled =>
        /\ (last.op = "loadTranslations" /\ ~last.cached)
              => \A name \in EnabledNames : InvokedCount(name) = 1
        /\ (last.op = "loadTranslations" /\ last.cached) => last.invoked = <<>>
        /\ last.op = "reloadTranslations"
              => \A name \in EnabledNames : InvokedCount(name) = 1

(* C3, amended: a loadTranslations call made while hasCachedTranslations is
   false, and any reloadTranslations call, invokes exactly once each enabled
   loader declared before the first enabled name without a factory (all of
   them when every enabled name has one) and no other; a loadTranslations call
   made while the flag is true invokes none and changes no manager state. *)
C3_LoadOnceReloadAlways ==
    /\ [](LastCalled =>
            /\ (last.op = "reloadTranslations" \/ ~last.cached)
                  => \A name \in EnabledNames \cup RegisteredNames :
                        InvokedCount(name) =
                            IF name \in EnabledNames /\ ~Blocked(name) THEN 1 ELSE 0
            /\ (last.op = "loadTranslations" /\ last.cached)
                  => last.invoked = <<>> /\ last.outcome = "skipped")
    /\ [][(LastCalled' /\ last'.op = "loadTranslations" /\ last'.cached)
             => UNCHANGED <<manager, inflight, ready>>]_vars

\* loadTranslations was called on a manager whose translations are cached
C3_Witness ==
    /\ LastCalled
    /\ last.op = "loadTranslations"
    /\ last.cached
    /\ last.outcome = "skipped"
    /\ "en" \in DOMAIN translations

(* C4: hasCachedTranslations is false until a reload has completed with
   success, which is the only step that sets it, and once true it is true
   after every later step. *)
C4_CachedFlagMonotone ==
    /\ ~hasCachedTranslations
    /\ [][/\ hasCachedTranslations => hasCachedTranslations'
          /\ (~hasCachedTranslations /\ hasCachedTranslations') => LastReloaded']_vars

\* a reload failed on a manager whose flag was true, and the flag is true
C4_Witness ==
    /\ LastFailed
    /\ last.phase = "resumed"
    /\ last.cached
    /\ hasCachedTranslations

-----------------------------------------------------------------------------
(* C5: with an explicit supportedLocales list in the configuration, empty or
   not, supportedLocales() returns that list in every state, whatever the
   loaders found; the inferred list is not returned. *)
C5_ExplicitSupportedLocales ==
    config.supportedLocales.some =>
        /\ supportedLocales = config.supportedLocales.val
        /\ last.op = "supportedLocales" => last.value = config.supportedLocales.val

\* supportedLocales() returned the empty explicit list after a reload had
\* inferred locales
C5_Witness ==
    /\ last.op = "supportedLocales"
    /\ config.supportedLocales = Some(<<>>)
    /\ hasCachedTranslations
    /\ Len(inferredLocales) > 1
    /\ last.value = <<>>

(* C6, as claimed: after a successful reload the inferred-locale list holds no
   locale twice and starts with defaultLocale. *)
C6_InferredLocalesDistinct ==
    hasCachedTranslations =>
        /\ inferredLocales[1] = defaultLocale
        /\ \A i \in 1..Len(inferredLocales) : \A j \in 1..Len(inferredLocales) :
              i # j => inferredLocales[i] # inferredLocales[j]

(* C7, as claimed: getFallbackLocaleFor(locale) returns defaultLocale when no
   fallbackLocales mapping is configured, else fallbackLocales[locale] when
   the mapping has that key and defaultLocale when it has not; it never
   returns an absent value. *)
C7_FallbackLocaleAsMapped ==
    last.op = "getFallbackLocaleFor" =>
        LET mapping == config.fallbackLocales
            own == IF mapping.some
                   THEN {i \in 1..Len(mapping.val) : mapping.val[i][1] = last.locale}
                   ELSE {}
        IN  /\ last.value # Undefined
            /\ last.value = IF own = {} THEN defaultLocale
                            ELSE mapping.val[CHOOSE i \in own : TRUE][2]

(* C8: over any sequence of getFormatter and extend calls a formatter factory
   is invoked at most once, and every getFormatter call that returns returns
   the one instance it made, also after the selected name is registered
   again. *)
C8_OneFormatterInstance ==
    /\ created <= 1
    /\ Cardinality(returned) <= 1
    /\ (last.op = "getFormatter" /\ last.outcome = "returned")
          => /\ created = 1
             /\ returned = {last.value}
             /\ formatter = Some(last.value)

\* getFormatter returned the first instance after the selected name had been
\* registered again with another factory
C8_Witness ==
    /\ last.op = "getFormatter"
    /\ last.outcome = "returned"
    /\ config.translationsFormat = "custom"
    /\ last.value.factory # PropertyGet(formatters, "custom")

(* C9: a reload fails with a configuration error exactly when an enabled
   loader name has no factory at that moment, and it fails before anything is
   merged; a name whose enabled flag is falsy is neither looked up nor
   invoked: unregistered, it causes no error, and it gives the store nothing. *)
C9_UnregisteredEnabledLoaderFails ==
    /\ []((LastCalled /\ (last.op = "reloadTranslations" \/ ~last.cached)) =>
            /\ last.outcome = "configuration error"
                  <=> \E name \in EnabledNames : name \notin RegisteredNames
            /\ \A i \in 1..Len(last.invoked) : last.invoked[i].name \in EnabledNames)
    /\ [](LastReloaded =>
            \A i \in 1..Len(last.loads) : last.loads[i].name \in EnabledNames)
    /\ [][(LastCalled' /\ last'.outcome = "configuration error")
             => UNCHANGED <<manager, inflight, ready>>]_vars

\* a reload threw for db, enabled and unregistered, after fs had been invoked
C9_Witness ==
    /\ LastCalled
    /\ last.outcome = "configuration error"
    /\ Len(last.invoked) = 1
    /\ "db" \in EnabledNames
    /\ "db" \notin RegisteredNames

(* C10: after a successful reload the store holds, for each lang the enabled
   sources returned, the union of the keys they returned for it; a key of one
   source only has that source's message; A = {en: {welcome: Hi}, fr:
   {welcome: Salut}} and B = {en: {bye: Bye}}, declared [A, B], give
   en = {welcome: Hi, bye: Bye} and fr = {welcome: Salut}. *)
C10_StoreIsUnionOfSources ==
    LastReloaded =>
        LET stack == DeclaredStack
            langsOf(trans) == {trans[i][1] : i \in 1..Len(trans)}
            providers(lang, key) ==
                {i \in 1..Len(stack) : Provides(stack[i], lang, key)}
        IN  /\ DOMAIN translations =
                  {lang \in AllLangs : \E i \in 1..Len(stack) : lang \in langsOf(stack[i])}
            /\ \A lang \in DOMAIN translations :
                  DOMAIN translations[lang] =
                      {key \in AllKeys : providers(lang, key) # {}}
            /\ \A lang \in AllLangs : \A key \in AllKeys :
                  Cardinality(providers(lang, key)) = 1
                     => translations[lang][key] =
                            Message(stack[CHOOSE i \in providers(lang, key) : TRUE],
                                    lang, key)
            /\ stack = << << <<"en", [welcome |-> "Hi"]>>, <<"fr", [welcome |-> "Salut"]>> >>,
                          << <<"en", [bye |-> "Bye"]>> >> >>
                  => translations = [en |-> [welcome |-> "Hi", bye |-> "Bye"],
                                     fr |-> [welcome |-> "Salut"]]

\* the reload of sources A and B, declared in that order, has merged
C10_Witness ==
    /\ LastReloaded
    /\ DeclaredStack = << << <<"en", [welcome |-> "Hi"]>>, <<"fr", [welcome |-> "Salut"]>> >>,
                          << <<"en", [bye |-> "Bye"]>> >> >>
    /\ getTranslationsFor("en") = [welcome |-> "Hi", bye |-> "Bye"]
    /\ getTranslationsFor("fr") = [welcome |-> "Salut"]

-----------------------------------------------------------------------------
(* What a reload is expected to leave, told from the translations it received. *)

\* the langs of one loader's translations, in the order of its keys
LangsOf(trans) == [i \in 1..Len(trans) |-> trans[i][1]]

\* the langs of a stack of translations, in the order the merge meets them
RECURSIVE LangsInOrder(_)
LangsInOrder(stack) ==
    IF stack = <<>> THEN <<>>
    ELSE LangsOf(Head(stack)) \o LangsInOrder(Tail(stack))

\* the elements of seq that occur neither in seen nor earlier in seq
RECURSIVE NewInOrder(_, _)
NewInOrder(seq, seen) ==
    IF seq = <<>> THEN <<>>
    ELSE IF Head(seq) \in seen THEN NewInOrder(Tail(seq), seen)
         ELSE <<Head(seq)>> \o NewInOrder(Tail(seq), seen \cup {Head(seq)})

\* the last source of the stack that gives a message for lang and key
LastProvider(stack, lang, key) ==
    CHOOSE i \in 1..Len(stack) :
        /\ Provides(stack[i], lang, key)
        /\ \A j \in (i + 1)..Len(stack) : ~Provides(stack[j], lang, key)

\* the store that is the complete merge of one stack and of nothing else
CompleteMerge(stack) ==
    [lang \in {l \in AllLangs : \E i \in 1..Len(stack) :
                   \E n \in 1..Len(stack[i]) : stack[i][n][1] = l} |->
        [key \in {k \in AllKeys : \E i \in 1..Len(stack) : Provides(stack[i], lang, k)} |->
            Message(stack[LastProvider(stack, lang, key)], lang, key)]]

-----------------------------------------------------------------------------
(* C11, as claimed: with defaultLocale "en", fallbackLocales {"fr-CA": "fr"},
   no explicit supportedLocales and loaders that discover en, fr, es in that
   order, supportedLocales() is ["en", "fr", "es"] after a successful reload. *)
C11_InferredEnFrEs ==
    (/\ LastReloaded
     /\ config.defaultLocale = "en"
     /\ config.fallbackLocales = Some(<< <<"fr-CA", "fr">> >>)
     /\ config.supportedLocales = None
     /\ NewInOrder(LangsInOrder(DeclaredStack), {}) = <<"en", "fr", "es">>)
    => supportedLocales = <<"en", "fr", "es">>

(* C11, amended: in that scenario supportedLocales() is
   ["en", "fr-CA", "fr", "es"]: the key "fr-CA" of fallbackLocales follows
   defaultLocale, and fr and es are appended as discovered. *)
C11_InferredEnFrCaFrEs ==
    (/\ LastReloaded
     /\ config.defaultLocale = "en"
     /\ config.fallbackLocales = Some(<< <<"fr-CA", "fr">> >>)
     /\ config.supportedLocales = None
     /\ NewInOrder(LangsInOrder(DeclaredStack), {}) = <<"en", "fr", "es">>)
    => supportedLocales = <<"en", "fr-CA", "fr", "es">>

\* the reload of the scenario has merged: fs found en and fr, db found en and es
C11_Witness ==
    /\ LastReloaded
    /\ config.defaultLocale = "en"
    /\ config.fallbackLocales = Some(<< <<"fr-CA", "fr">> >>)
    /\ config.supportedLocales = None
    /\ NewInOrder(LangsInOrder(DeclaredStack), {}) = <<"en", "fr", "es">>
    /\ DOMAIN translations = {"en", "fr", "es"}

-----------------------------------------------------------------------------
(* Negotiation. *)

LastNegotiated == last.op = "getSupportedLocaleFor"

\* range r of a preference matches the locale string
Matches(r, locale) ==
    /\ locale # ""
    /\ LET tag == ParseLanguage(locale).val
       IN  \/ r.prefix = "*" /\ r.suffix = ""
           \/ Full(r) = Full(tag)
           \/ r.suffix # "" /\ tag.suffix = ""
                /\ ToLowerCase(r.prefix) = ToLowerCase(tag.prefix)
           \/ r.suffix = "" /\ tag.suffix # ""
                /\ ToLowerCase(r.prefix) = ToLowerCase(tag.prefix)

\* the ranges of a userLanguage argument
RangesOf(userLanguage) ==
    LET accept == AcceptLanguageHeader(userLanguage)
    IN  {accept[n] : n \in 1..Len(accept)}

\* C12: getSupportedLocaleFor returns null whenever no supported locale matches
\* any preference, as for [] and for ["xx-unmatched"]; a value other than null
\* is an element of supportedLocales().
C12_NullOrSupportedLocale ==
    LastNegotiated =>
        /\ (\A r \in RangesOf(last.userLanguage) :
                \A n \in 1..Len(supportedLocales) :
                    ~Matches(r, supportedLocales[n]))
            => last.value = Null
        /\ last.userLanguage = AsArray(<<>>) => last.value = Null
        /\ last.userLanguage = AsArray(<< <<LanguageRange("xx", "unmatched", 1000)>> >>)
            => last.value = Null
        /\ last.value # Null => Includes(supportedLocales, last.value)

C12_Witness ==
    /\ LastNegotiated
    /\ last.userLanguage = AsArray(<< <<LanguageRange("xx", "unmatched", 1000)>> >>)
    /\ Includes(supportedLocales, "fr")
    /\ last.value = Null
\* how closely a matching range names the locale: the same tag, the locale's
\* language with a region added, the bare language of the locale, the wildcard
Closeness(r, locale) ==
    LET tag == ParseLanguage(locale).val
    IN  IF Full(r) = Full(tag) THEN 3
        ELSE IF r.prefix = "*" THEN 0
        ELSE IF r.suffix # "" THEN 2
        ELSE 1

\* the weight a preference gives a locale: the q of the closest range that
\* matches it (the highest q among equally close ranges), 0 when none matches
Weight(userLanguage, locale) ==
    LET matching == {r \in RangesOf(userLanguage) : Matches(r, locale)}
        closest == {r \in matching :
                       \A o \in matching :
                           Closeness(o, locale) <= Closeness(r, locale)}
    IN  IF matching = {} THEN 0
        ELSE CHOOSE q \in {r.q : r \in closest} :
                 \A r \in closest : r.q <= q

FrCaThenEn ==
    AsString(<<LanguageRange("fr", "CA", 900), LanguageRange("en", "", 500)>>)

-----------------------------------------------------------------------------
(* Overlapping loads. *)

\* a reload started by loadTranslations has not run its continuation yet
LoadInFlight ==
    \E i \in 1..Len(inflight \o ready) : (inflight \o ready)[i].kind = "loadTranslations"

\* this step is a loadTranslations call on an uncached manager made while the
\* reload of an earlier loadTranslations call is in flight
SecondLoadCalled ==
    /\ LoadInFlight
    /\ ~hasCachedTranslations
    /\ LastCalled'
    /\ last'.op = "loadTranslations"

(* C14, as claimed: a second loadTranslations call made on an uncached manager
   while the reload of a first loadTranslations call is in flight is a no-op:
   it starts no reload and invokes no loader. *)
C14_SecondLoadIsNoOp ==
    [][SecondLoadCalled =>
          /\ last'.outcome = "skipped"
          /\ last'.invoked = <<>>
          /\ UNCHANGED <<inflight, ready>>]_vars

(* C14, amended: such a second call finds hasCachedTranslations still false,
   so it starts a reload of its own: it invokes every enabled loader once more
   and suspends on its own join, next to the call already in flight. *)
C14_SecondLoadReloadsAgain ==
    [][SecondLoadCalled =>
          /\ last'.outcome = "suspended"
          /\ \A name \in EnabledNames : InvokedCount(name)' = 1
          /\ Len(inflight') + Len(ready') = Len(inflight) + Len(ready) + 1
          /\ \E queue \in {inflight', ready'} :
                /\ queue # <<>>
                /\ queue[Len(queue)].kind = "loadTranslations"
                /\ Len(queue[Len(queue)].loads) = Len(last'.invoked)
          /\ UNCHANGED manager]_vars

\* two loadTranslations calls are suspended, both with the loaders invoked
C14_Witness ==
    /\ LastCalled
    /\ last.op = "loadTranslations"
    /\ ~last.cached
    /\ last.outcome = "suspended"
    /\ last.invoked # <<>>
    /\ Len(inflight) = 2
    /\ \A i \in 1..2 : inflight[i].kind = "loadTranslations"
-----------------------------------------------------------------------------
(* What a reload leaves of the state before it. *)

\* the inferred list one stack of translations gives under the configuration
InferredFrom(stack) ==
    InferredBase \o
        NewInOrder(LangsInOrder(stack), {InferredBase[i] : i \in 1..Len(InferredBase)})

\* C15: after a successful reload the store and the inferred list are
\* determined by the configuration and the results returned to that reload
\* alone: a locale or key the store held before and no source returned now is
\* in neither, unless the locale is defaultLocale or a key of fallbackLocales.
C15_ReloadReplacesState ==
    LastReloaded =>
        /\ translations = CompleteMerge(DeclaredStack)
        /\ inferredLocales = InferredFrom(DeclaredStack)
        /\ \A lang \in DOMAIN last.replaced :
              /\ (\A i \in 1..Len(DeclaredStack) :
                      ~Includes(LangsOf(DeclaredStack[i]), lang))
                  => /\ lang \notin DOMAIN translations
                     /\ Includes(inferredLocales, lang)
                            => Includes(InferredBase, lang)
              /\ \A key \in DOMAIN last.replaced[lang] :
                    (\A i \in 1..Len(DeclaredStack) :
                        ~Provides(DeclaredStack[i], lang, key))
                    => (lang \notin DOMAIN translations
                            \/ key \notin DOMAIN translations[lang])

\* a reload dropped the locale fr and the key bye of en, held before it
C15_Witness ==
    /\ LastReloaded
    /\ "fr" \in DOMAIN last.replaced
    /\ "fr" \notin DOMAIN translations
    /\ ~Includes(inferredLocales, "fr")
    /\ "bye" \in DOMAIN last.replaced["en"]
    /\ "en" \in DOMAIN translations
    /\ "bye" \notin DOMAIN translations["en"]
-----------------------------------------------------------------------------
\* C16: after every successful load, whatever the enabled sources returned, no
\* locale key of the translation store is the empty string.
C16_NoEmptyLocaleKey ==
    (hasCachedTranslations \/ LastReloaded) => "" \notin DOMAIN translations
-----------------------------------------------------------------------------
(* Lazy registry lookups. *)

\* the factory registered now under the configured translationsFormat
SelectedFormatter == PropertyGet(formatters, config.translationsFormat)

(* C17: getFormatter instantiates the factory registered under
   translationsFormat at the moment of the call, also one registered by extend
   after construction; while that name has no factory it fails with a
   configuration error and caches nothing, and once the name is registered it
   succeeds; a reload invokes, for each loader, the factory registered at the
   moment of that reload. *)
C17_LazyRegistryLookups ==
    /\ [][last'.op = "getFormatter" =>
             /\ ~Truthy(SelectedFormatter) /\ ~formatter.some
                  => /\ last'.outcome = "configuration error"
                     /\ ~formatter'.some
                     /\ UNCHANGED <<manager, created, returned>>
             /\ Truthy(SelectedFormatter) /\ ~formatter.some
                  => /\ last'.outcome = "returned"
                     /\ last'.value.factory = SelectedFormatter
                     /\ formatter' = Some(last'.value)
             /\ last'.outcome = "configuration error"
                  => ~Truthy(SelectedFormatter)]_vars
    /\ [][LastCalled' =>
             \A i \in 1..Len(last'.invoked) :
                 last'.invoked[i].factory = PropertyGet(loaders, last'.invoked[i].name)]_vars

\* getFormatter returned an instance of the factory that extend registered
\* under the configured name after construction
C17_Witness ==
    /\ last.op = "getFormatter"
    /\ last.outcome = "returned"
    /\ config.translationsFormat = "custom"
    /\ last.value.factory \in FormatterCallbacks
    /\ last.value.factory = SelectedFormatter
-----------------------------------------------------------------------------
(* C18: getSupportedLocaleFor changes no state of the manager (store, cached
   flag, inferred list, registries, cached formatter) and can be called in
   every state, also before any load, where it returns without an error. *)
C18_NegotiationHasNoEffect ==
    /\ [][last'.op = "getSupportedLocaleFor" =>
             UNCHANGED <<config, manager, inflight, ready, created, returned>>]_vars
    /\ [](\A userLanguage \in UserLanguages :
             getSupportedLocaleFor(userLanguage)
                 \in {Null} \cup {supportedLocales[n] : n \in 1..Len(supportedLocales)})

\* getSupportedLocaleFor has returned on a manager that never loaded
C18_Witness ==
    /\ LastNegotiated
    /\ ~hasCachedTranslations
    /\ inflight = <<>> /\ ready = <<>>
    /\ translations = EmptyObject
    /\ inferredLocales = <<>>
    /\ last.value = Null
    /\ last.userLanguage = FrCaThenEn
-----------------------------------------------------------------------------
(* Overlapping reloads. *)

\* the step is the continuation of a reload whose loads were all fulfilled
ReloadMerges ==
    /\ ready # <<>>
    /\ ready' = Tail(ready)
    /\ ~Head(ready).rejected
    /\ LastReloaded'
    /\ last'.loads = Head(ready).loads

(* C19: with reloads that overlap, the store and the inferred list change only
   in the continuation of one reload, in one step, from the values before it
   to the complete merge of that reload's results and of nothing else; the
   continuations run in the order the reloads' loads finished, so the state
   after the last one is the complete merge of the reload that finished last. *)
C19_OverlappingReloadsMergeWhole ==
    /\ [][<<translations, inferredLocales>>' # <<translations, inferredLocales>>
             => ReloadMerges]_vars
    /\ [][ReloadMerges =>
             /\ translations' = CompleteMerge(TranslationsStack(Head(ready)))
             /\ inferredLocales' = InferredFrom(TranslationsStack(Head(ready)))]_vars
    /\ [][ready' # ready =>
             \/ ready # <<>> /\ ready' = Tail(ready)
                  /\ last'.phase = "resumed" /\ last'.loads = Head(ready).loads
             \/ Len(ready') = Len(ready) + 1
                  /\ ready = [n \in 1..Len(ready) |-> ready'[n]]]_vars

\* of two reloadTranslations calls that overlapped, the one whose loads
\* finished first has merged its results, the other waits with results of its own
C19_Witness ==
    /\ LastReloaded
    /\ last.op = "reloadTranslations"
    /\ ready # <<>>
    /\ Head(ready).kind = "reloadTranslations"
    /\ ~Head(ready).rejected
    /\ CompleteMerge(TranslationsStack(Head(ready))) # CompleteMerge(DeclaredStack)
    /\ translations = CompleteMerge(DeclaredStack)
    /\ translations # EmptyObject
-----------------------------------------------------------------------------
\* C20: in every reachable state, before any load and after any sequence of
\* loads and reloads that succeeded or failed, every locale that is a key of
\* the translation store is an element of the inferred-locale list.
C20_StoreLocalesAreInferred ==
    \A lang \in DOMAIN translations : Includes(inferredLocales, lang)

\* a reload failed after an earlier one had discovered a locale that the
\* configuration does not name
C20_Witness ==
    /\ LastFailed
    /\ last.outcome = "load failure"
    /\ "es" \in DOMAIN translations
    /\ Includes(inferredLocales, "es")
    /\ ~Includes(InferredBase, "es")
====
